---------------------------- MODULE Spec2Model ----------------------------
(***************************************************************************)
(* A model of the MoltBook request bridge (src/src/moltbook-tools.ts):     *)
(* config resolution, credential resolution, the bridged HTTP call with    *)
(* its timer, and the four tool execute functions.                         *)
(*                                                                         *)
(* JavaScript values are tagged records.  Strings that the code trims or   *)
(* prefix-tests are tuples of one-character strings; texts the code only   *)
(* passes through (response bodies, header values) are TLA+ strings.       *)
(***************************************************************************)
EXTENDS Integers, Sequences, FiniteSets, TLC

VARIABLES
    pluginConfig,   \* api.pluginConfig, as the host last set it
    env,            \* process.env.MOLTBOOK_API_KEY
    inv,            \* tool invocations: position, parameters, bridged calls, result
    timers,         \* the runtime's timer table: one handle per bridged call
    requests,       \* outbound requests issued by fetch, per invocation
    changes,        \* how many times the host has changed pluginConfig or env
    stamps          \* history: pluginConfig and env as they were when each
                    \* bridged call was entered

vars == <<pluginConfig, env, inv, timers, requests, changes, stamps>>

---------------------------------------------------------------------------
(* Bounds of the model.                                                    *)

MaxInv == 2          \* tool invocations that may be in flight together
MaxPad == 1          \* whitespace characters padded around an input string
MaxCfgChanges == 1   \* host changes of pluginConfig / environment

---------------------------------------------------------------------------
(* JavaScript values.                                                      *)

Undef == [t |-> "undefined"]
Str(s) == [t |-> "string", s |-> s]
Num(n) == [t |-> "number", n |-> n]
Bool(b) == [t |-> "boolean", b |-> b]

IsStr(x) == x.t = "string"
IsNum(x) == x.t = "number"

\* JavaScript truthiness of a value
Truthy(x) ==
    CASE x.t = "undefined" -> FALSE
      [] x.t = "null" -> FALSE
      [] x.t = "string" -> Len(x.s) > 0
      [] x.t = "number" -> x.n # 0
      [] x.t = "boolean" -> x.b

\* a || b
Or(a, b) == IF Truthy(a) THEN a ELSE b

\* the code units String.prototype.trim strips (WhiteSpace and LineTerminator
\* of ECMAScript); a character a string literal here cannot hold is written as
\* its code point and is one element of the tuple like any other character
WhiteSpace ==
    {" ", "\t", "\n", "\f", "\r", "U+000B", "U+00A0", "U+1680",
     "U+2000", "U+2001", "U+2002", "U+2003", "U+2004", "U+2005", "U+2006",
     "U+2007", "U+2008", "U+2009", "U+200A", "U+2028", "U+2029", "U+202F",
     "U+205F", "U+3000", "U+FEFF"}

RECURSIVE TrimStart(_)
TrimStart(s) ==
    IF s # <<>> /\ Head(s) \in WhiteSpace THEN TrimStart(Tail(s)) ELSE s

RECURSIVE TrimEnd(_)
TrimEnd(s) ==
    IF s # <<>> /\ s[Len(s)] \in WhiteSpace
    THEN TrimEnd(SubSeq(s, 1, Len(s) - 1))
    ELSE s

\* String.prototype.trim
Trim(s) == TrimEnd(TrimStart(s))

\* String.prototype.startsWith
StartsWith(s, p) == Len(s) >= Len(p) /\ SubSeq(s, 1, Len(p)) = p

\* a thrown value / a returned value
Throw(e) == [threw |-> TRUE, error |-> e]
Return(v) == [threw |-> FALSE, value |-> v]

Err(name, message) == [name |-> name, message |-> message]

---------------------------------------------------------------------------
(* Config resolver.                                                        *)

SAFE_BASE ==
    << "h","t","t","p","s",":","/","/","w","w","w",".",
       "m","o","l","t","b","o","o","k",".","c","o","m",
       "/","a","p","i","/","v","1" >>

DEFAULT_TIMEOUT_MS == 15000

EmptyCfg ==
    [apiBase |-> Undef, apiKey |-> Undef,
     defaultSubmolt |-> Undef, requestTimeoutMs |-> Undef]

UnsafeApiBase == Err("Error", <<"Unsafe apiBase. Must use ", SAFE_BASE>>)
MissingKey ==
    Err("Error", <<"Missing MoltBook API key (plugin config apiKey or MOLTBOOK_API_KEY)">>)

\* api.pluginConfig ?? {}
PluginCfgOf(pc) == IF pc = Undef THEN EmptyCfg ELSE pc

ApiBaseAllowed(apiBase) == StartsWith(apiBase, SAFE_BASE)

getCfg(pc) ==
    LET cfg == PluginCfgOf(pc)
        apiBase == Trim(Or(cfg.apiBase, Str(SAFE_BASE)).s)
    IN  IF ~ApiBaseAllowed(apiBase)
        THEN Throw(UnsafeApiBase)
        ELSE Return([cfg EXCEPT !.apiBase = Str(apiBase)])

getApiKey(pc, e) ==
    LET r == getCfg(pc)
    IN  IF r.threw THEN r
        ELSE LET key == Trim(Or(Or(r.value.apiKey, e), Str(<<>>)).s)
             IN  IF key = <<>> THEN Throw(MissingKey) ELSE Return(key)

\* cfg.requestTimeoutMs && cfg.requestTimeoutMs > 0 ? cfg.requestTimeoutMs : 15000
TimeoutMsOf(cfg) ==
    IF Truthy(cfg.requestTimeoutMs) /\ cfg.requestTimeoutMs.n > 0
    THEN cfg.requestTimeoutMs.n
    ELSE DEFAULT_TIMEOUT_MS

---------------------------------------------------------------------------
(* HTTP bridge: callMoltbook.                                              *)

Null == [t |-> "null"]
Obj(f) == [t |-> "object", f |-> f]

\* res.ok
ResOk(status) == status >= 200 /\ status <= 299

\* JSON.parse on the body texts the model's upstream can send
JsonParse(text) ==
    CASE text = "{\"error\":\"slow down\"}" -> Return(Obj([error |-> Str("slow down")]))
      [] text = "{\"error\":{\"code\":7}}" -> Return(Obj([error |-> Obj([code |-> Num(7)])]))
      [] text = "{\"id\":1}" -> Return(Obj([id |-> Num(1)]))
      [] OTHER -> Throw(Err("SyntaxError", <<"Unexpected token">>))

\* a parse failure that loses the body text
ParseBodyDropsRaw(text) ==
    IF text = "" THEN Null
    ELSE LET r == JsonParse(text)
         IN  IF r.threw THEN Null ELSE r.value

\* let data = null; try { data = text ? JSON.parse(text) : null } catch { data = {raw: text} }
ParseBody(text) ==
    IF text = "" THEN Null
    ELSE LET r == JsonParse(text)
         IN  IF r.threw THEN Obj([raw |-> Str(text)]) ELSE r.value

\* JSON.stringify on the values ParseBody yields
JsonStringify(data) ==
    CASE data = Null -> "null"
      [] data = Obj([error |-> Str("slow down")]) -> "{\"error\":\"slow down\"}"
      [] data = Obj([error |-> Obj([code |-> Num(7)])]) -> "{\"error\":{\"code\":7}}"
      [] data = Obj([id |-> Num(1)]) -> "{\"id\":1}"
      [] OTHER -> "{\"raw\":\"" \o data.f.raw.s \o "\"}"

\* data?.error
ErrorField(data) ==
    IF data.t = "object" /\ "error" \in DOMAIN data.f THEN data.f.error ELSE Undef

\* the detail of an upstream error
Detail(data) ==
    IF IsStr(ErrorField(data)) THEN ErrorField(data).s ELSE JsonStringify(data)

\* an upstream error that drops the retry hint
RetryHintDropped(retryAfter) == <<>>

\* the retry hint appended to the message
RetryHint(retryAfter) ==
    IF Truthy(retryAfter) THEN <<" (retry-after=", retryAfter.s, "s)">> ELSE <<>>

\* the Error thrown for a response that is not ok; the message is the
\* concatenation of the parts
UpstreamError(res, data) ==
    Err("Error",
        <<"MoltBook API ", ToString(res.status), ": ", Detail(data)>>
            \o RetryHint(res.retryAfter))

\* what the awaits of callMoltbook reject with: after controller.abort(),
\* when the connection fails before the response, and when it fails while
\* the body is read
AbortError == Err("AbortError", <<"This operation was aborted">>)
FetchFailed == Err("TypeError", <<"fetch failed">>)
Terminated == Err("TypeError", <<"terminated">>)

\* what the try block yields once the body text has been read
Outcome(res, text) ==
    LET data == ParseBody(text)
    IN  IF ~ResOk(res.status) THEN Throw(UpstreamError(res, data)) ELSE Return(data)

\* timer handles
NoTimer == [state |-> "none", ms |-> 0]
SetTimeout(ms) == [state |-> "armed", ms |-> ms]
ClearTimeout(t) == IF t.state = "armed" THEN [t EXCEPT !.state = "cleared"] ELSE t

\* a clearTimeout placed after the try block's normal exit only
FinallyOnReturnOnly(t, out) == IF out.threw THEN t ELSE ClearTimeout(t)

\* finally { clearTimeout(timeout) }: the timer after the try block exits with out
Finally(t, out) == ClearTimeout(t)

NoRes == [status |-> 0, retryAfter |-> Null]

\* callMoltbook from its entry to the first await: resolve config and
\* credential, arm the timer, issue the fetch
BeginCall(pc, e, path, init) ==
    LET c == getCfg(pc)
        k == getApiKey(pc, e)
        at == [pluginConfig |-> pc, env |-> e]
        base == [pc |-> "threw", path |-> path, init |-> init, at |-> at, cfg |-> Undef,
                 res |-> NoRes, text |-> Undef, out |-> Undef]
    IN  IF c.threw
        THEN [call |-> [base EXCEPT !.out = c], timer |-> NoTimer, reqs |-> <<>>]
        ELSE IF k.threw
        THEN [call |-> [base EXCEPT !.out = k], timer |-> NoTimer, reqs |-> <<>>]
        ELSE LET timeoutMs == TimeoutMsOf(c.value)
                 eff == [apiBase |-> c.value.apiBase.s, apiKey |-> k.value,
                         timeoutMs |-> timeoutMs]
             IN  [call |-> [base EXCEPT !.pc = "fetching", !.cfg = eff],
                  timer |-> SetTimeout(timeoutMs),
                  reqs |-> << [url |-> <<c.value.apiBase.s, path>>,
                               method |-> init.method,
                               body |-> init.body,
                               headers |-> [Authorization |-> <<"Bearer ", k.value>>,
                                            ContentType |-> "application/json"]] >>]

---------------------------------------------------------------------------
(* Tool execute functions, up to their bridged call.                       *)

SUBMOLT_GENERAL == <<"g","e","n","e","r","a","l">>
SORT_NEW == <<"n","e","w">>
TYPE_ALL == <<"a","l","l">>

TitleRequired == Err("Error", <<"title is required">>)
ContentOrUrlRequired == Err("Error", <<"Either content or url is required">>)
QueryRequired == Err("Error", <<"query is required">>)

Min(a, b) == IF a < b THEN a ELSE b
Max(a, b) == IF a > b THEN a ELSE b

\* Math.max(1, Math.min(50, limit))
Clamp(n) == Max(1, Min(50, n))

\* typeof x === "string" ? x.trim() : otherwise
TrimmedOr(x, otherwise) == IF IsStr(x) THEN Str(Trim(x.s)) ELSE otherwise

Get == [method |-> "GET", body |-> Undef]

\* the bridged request of a tool: a path and the init passed to callMoltbook
Bridge(path, init) == Return([path |-> path, init |-> init])

StatusPath(k) == IF k = 1 THEN <<"/agents/me">> ELSE <<"/agents/status">>

PostBody(submolt, title, content, url) ==
    [k \in {"submolt", "title"}
            \cup (IF Truthy(content) THEN {"content"} ELSE {})
            \cup (IF Truthy(url) THEN {"url"} ELSE {}) |->
        CASE k = "submolt" -> submolt
          [] k = "title" -> title
          [] k = "content" -> content
          [] k = "url" -> url]

PostExecute(params, pc) ==
    LET c == getCfg(pc)
    IN  IF c.threw THEN c
        ELSE
        LET cfg == c.value
            submolt == Or(Or(IF IsStr(params.submolt)
                             THEN Str(Trim(params.submolt.s)) ELSE Bool(FALSE),
                             cfg.defaultSubmolt),
                          Str(SUBMOLT_GENERAL))
            title == TrimmedOr(params.title, Str(<<>>))
            content == TrimmedOr(params.content, Undef)
            url == TrimmedOr(params.url, Undef)
        IN  IF ~Truthy(title) THEN Throw(TitleRequired)
            ELSE IF ~Truthy(content) /\ ~Truthy(url) THEN Throw(ContentOrUrlRequired)
            ELSE Bridge(<<"/posts">>,
                        [method |-> "POST",
                         body |-> <<"JSON.stringify",
                                    PostBody(submolt, title, content, url)>>])

FeedExecute(params) ==
    LET personalized == params.personalized # Bool(FALSE)
        sort == IF IsStr(params.sort) THEN params.sort.s ELSE SORT_NEW
        limit == IF IsNum(params.limit) THEN Clamp(params.limit.n) ELSE 10
        submolt == TrimmedOr(params.submolt, Str(<<>>))
        qs == << <<"sort", sort>>, <<"limit", ToString(limit)>> >>
    IN  Bridge(IF personalized THEN <<"/feed?", qs>>
               ELSE IF Truthy(submolt)
                    THEN <<"/posts?", qs, "&submolt=", <<"encodeURIComponent", submolt.s>> >>
                    ELSE <<"/posts?", qs>>,
               Get)

\* a search tool that does not check its query
SearchExecuteUnchecked(params) ==
    LET query == TrimmedOr(params.query, Str(<<>>))
        type == IF IsStr(params.type) THEN params.type.s ELSE TYPE_ALL
        limit == IF IsNum(params.limit) THEN Clamp(params.limit.n) ELSE 20
    IN  Bridge(<<"/search?",
                 << <<"q", query.s>>, <<"type", type>>,
                    <<"limit", ToString(limit)>> >> >>,
               Get)

SearchExecute(params) ==
    LET query == TrimmedOr(params.query, Str(<<>>))
        type == IF IsStr(params.type) THEN params.type.s ELSE TYPE_ALL
        limit == IF IsNum(params.limit) THEN Clamp(params.limit.n) ELSE 20
    IN  IF ~Truthy(query) THEN Throw(QueryRequired)
        ELSE Bridge(<<"/search?",
                      << <<"q", query.s>>, <<"type", type>>,
                         <<"limit", ToString(limit)>> >> >>,
                    Get)

\* a tool's execute from its entry to its first callMoltbook
Execute(tool, params, pc) ==
    CASE tool = "moltbook_status" -> Bridge(StatusPath(1), Get)
      [] tool = "moltbook_post" -> PostExecute(params, pc)
      [] tool = "moltbook_feed" -> FeedExecute(params)
      [] tool = "moltbook_search" -> SearchExecute(params)

\* the result envelope
Envelope(details) ==
    [content |-> << [type |-> "text", text |-> <<"JSON.stringify", details, 2>>] >>,
     details |-> details]

---------------------------------------------------------------------------
(* One invocation's progress.  S = [I, T, R]: the invocation record, its   *)
(* timer handles (one per bridged call) and the requests it has issued.    *)

Invs == 1 .. MaxInv

Idle == [pc |-> "idle", tool |-> "", params |-> Undef, calls |-> <<>>, out |-> Undef]
Unused == [Idle EXCEPT !.pc = "unused"]

\* execute throws / returns its envelope
Thrown(S, error) == [S EXCEPT !.I.pc = "threw", !.I.out = Throw(error)]
Returned(S, details) ==
    [S EXCEPT !.I.pc = "returned", !.I.out = Return(Envelope(details))]

\* execute calls callMoltbook and awaits it: the call runs to its own first
\* await (the fetch), or throws before it and leaves a rejected promise whose
\* reaction, execute's continuation, is a later job
EnterCall(S, pc, e, path, init) ==
    LET b == BeginCall(pc, e, path, init)
        S1 == [I |-> [S.I EXCEPT !.calls = Append(@, b.call)],
               T |-> Append(S.T, b.timer),
               R |-> S.R \o b.reqs]
    IN  [S1 EXCEPT !.I.pc = IF b.call.pc = "threw" THEN "resuming" ELSE "awaiting"]

\* a status tool that swallows the failure of its second call
RejectedPartial(S, error, pc, e) ==
    IF S.I.tool = "moltbook_status" /\ Len(S.I.calls) = 2
    THEN Returned(S, [me |-> S.I.calls[1].out.value, status |-> Undef])
    ELSE Thrown(S, error)

\* an execute that retries a failed call once
RejectedRetry(S, error, pc, e) ==
    IF Len(S.I.calls) = 1
    THEN EnterCall(S, pc, e, S.I.calls[1].path, S.I.calls[1].init)
    ELSE Thrown(S, error)

\* execute when its awaited call throws: nothing catches, the error propagates
Rejected(S, error, pc, e) == Thrown(S, error)

\* a status tool whose second call reuses the configuration its first call read
ResolvedCached(S, value, pc, e) ==
    IF S.I.tool = "moltbook_status"
    THEN IF Len(S.I.calls) = 1
         THEN EnterCall(S, S.I.calls[1].at.pluginConfig, S.I.calls[1].at.env,
                        StatusPath(2), Get)
         ELSE Returned(S, [me |-> S.I.calls[1].out.value, status |-> value])
    ELSE Returned(S, value)

\* execute when its awaited call returns value: the status tool goes on to
\* its second call, every other path builds the envelope
Resolved(S, value, pc, e) ==
    IF S.I.tool = "moltbook_status"
    THEN IF Len(S.I.calls) = 1
         THEN EnterCall(S, pc, e, StatusPath(2), Get)
         ELSE Returned(S, [me |-> S.I.calls[1].out.value, status |-> value])
    ELSE Returned(S, value)

\* the pending call's try block exits with out and its finally block runs:
\* the promise execute awaits is settled, execute's continuation is queued
Settle(S, out) ==
    LET k == Len(S.I.calls)
    IN  [S EXCEPT !.I.calls[k].pc = IF out.threw THEN "threw" ELSE "returned",
                  !.I.calls[k].out = out,
                  !.T[k] = Finally(@, out),
                  !.I.pc = "resuming"]

\* the await inside the pending call is rejected with error; the call's own
\* continuation (catch-less try, then finally) is a later job
Reject(S, error) ==
    [S EXCEPT !.I.calls[Len(S.I.calls)].pc = "rejecting",
              !.I.calls[Len(S.I.calls)].out = Throw(error)]

Cur(i) == [I |-> inv[i], T |-> timers[i], R |-> requests[i]]

Commit(i, S) ==
    /\ inv' = [inv EXCEPT ![i] = S.I]
    /\ timers' = [timers EXCEPT ![i] = S.T]
    /\ requests' = [requests EXCEPT ![i] = S.R]
    /\ stamps' = [stamps EXCEPT ![i] =
                    IF Len(S.I.calls) > Len(inv[i].calls)
                    THEN Append(@, [pluginConfig |-> pluginConfig, env |-> env])
                    ELSE @]

Pending(i) == inv[i].pc = "awaiting"
InFlight(c) == c.pc \in {"fetching", "reading"}
LastCall(i) == inv[i].calls[Len(inv[i].calls)]

---------------------------------------------------------------------------
(* Actions.                                                                *)

\* the host calls a tool's execute, which runs to its first await or throws
\* before it
Invoke(i, tool, params) ==
    /\ inv[i].pc = "idle"
    /\ LET x == Execute(tool, params, pluginConfig)
           S0 == [I |-> [inv[i] EXCEPT !.tool = tool, !.params = params],
                  T |-> <<>>, R |-> <<>>]
       IN  Commit(i, IF x.threw
                     THEN Thrown(S0, x.error)
                     ELSE EnterCall(S0, pluginConfig, env, x.value.path, x.value.init))
    /\ UNCHANGED <<pluginConfig, env, changes>>

\* fetch resolves with the response's status and headers; res.text() is awaited
ResponseArrives(i, res) ==
    /\ Pending(i)
    /\ LastCall(i).pc = "fetching"
    /\ inv' = [inv EXCEPT ![i].calls[Len(inv[i].calls)] =
                    [@ EXCEPT !.pc = "reading", !.res = res]]
    /\ UNCHANGED <<pluginConfig, env, timers, requests, changes, stamps>>

\* res.text() resolves and the call's continuation runs: the body is parsed,
\* the call returns or throws, its finally block clears the timer
BodyArrives(i, text) ==
    /\ Pending(i)
    /\ LastCall(i).pc = "reading"
    /\ LET S == [Cur(i) EXCEPT !.I.calls[Len(inv[i].calls)].text = Str(text)]
       IN  Commit(i, Settle(S, Outcome(LastCall(i).res, text)))
    /\ UNCHANGED <<pluginConfig, env, changes>>

\* the timer of call k fires: the callback runs controller.abort(), which
\* rejects the await of a call still in flight, and returns to the event loop.
\* No timer callback runs between a rejection and the job that handles it.
TimerFires(i, k) ==
    /\ k \in DOMAIN timers[i]
    /\ timers[i][k].state = "armed"
    /\ inv[i].calls[k].pc # "rejecting"
    /\ LET S == [Cur(i) EXCEPT !.T[k].state = "fired"]
       IN  Commit(i, IF InFlight(inv[i].calls[k]) THEN Reject(S, AbortError) ELSE S)
    /\ UNCHANGED <<pluginConfig, env, changes>>

\* the connection fails: the await of fetch rejects with "fetch failed", the
\* await of res.text() with "terminated"
NetworkFails(i) ==
    /\ Pending(i)
    /\ InFlight(LastCall(i))
    /\ Commit(i, Reject(Cur(i), IF LastCall(i).pc = "fetching"
                               THEN FetchFailed ELSE Terminated))
    /\ UNCHANGED <<pluginConfig, env, changes>>

\* the call's continuation after a rejected await: the error leaves the try
\* block uncaught, the finally block clears the timer, the call throws
CallRejects(i) ==
    /\ Pending(i)
    /\ LastCall(i).pc = "rejecting"
    /\ Commit(i, Settle(Cur(i), LastCall(i).out))
    /\ UNCHANGED <<pluginConfig, env, changes>>

\* execute's continuation after its awaited call has settled: it rethrows,
\* builds the envelope, or (status tool) begins its second call, which reads
\* the configuration and the environment as they are now
Resume(i) ==
    /\ inv[i].pc = "resuming"
    /\ LET out == LastCall(i).out
       IN  Commit(i, IF out.threw
                     THEN Rejected(Cur(i), out.error, pluginConfig, env)
                     ELSE Resolved(Cur(i), out.value, pluginConfig, env))
    /\ UNCHANGED <<pluginConfig, env, changes>>

\* the host replaces api.pluginConfig
HostSetsConfig(c) ==
    /\ changes < MaxCfgChanges
    /\ c # pluginConfig
    /\ pluginConfig' = c
    /\ changes' = changes + 1
    /\ UNCHANGED <<env, inv, timers, requests, stamps>>

\* the host changes MOLTBOOK_API_KEY in the environment
HostSetsEnv(e) ==
    /\ changes < MaxCfgChanges
    /\ e # env
    /\ env' = e
    /\ changes' = changes + 1
    /\ UNCHANGED <<pluginConfig, inv, timers, requests, stamps>>

\* the state after construction: tools registered, nothing invoked yet
InitOver(Cfgs, Envs, Active) ==
    /\ pluginConfig \in Cfgs
    /\ env \in Envs
    /\ inv = [i \in Invs |-> IF i \in Active THEN Idle ELSE Unused]
    /\ timers = [i \in Invs |-> <<>>]
    /\ requests = [i \in Invs |-> <<>>]
    /\ stamps = [i \in Invs |-> <<>>]
    /\ changes = 0

---------------------------------------------------------------------------
(* Inputs.                                                                 *)

RECURSIVE Spaces(_)
Spaces(n) == IF n = 0 THEN <<>> ELSE <<" ">> \o Spaces(n - 1)

Pads == {Spaces(n) : n \in 0 .. MaxPad}

\* the strings of S with up to MaxPad blanks on either side
Padded(S) == {l \o s \o r : l \in Pads, s \in S, r \in Pads}

StrsOf(S) == {Str(s) : s \in S}

KEY1 == <<"k","1">>
KEY2 == <<"k","2">>
CATS == <<"c","a","t","s">>

ApiBaseInputs ==
    {Undef} \cup StrsOf(
        Padded({ <<>>,
                 SAFE_BASE,
                 SAFE_BASE \o <<"/","x">>,
                 SAFE_BASE \o <<"0">>,
                 SAFE_BASE \o <<".","e","v","i","l",".","i","o">>,
                 SubSeq(SAFE_BASE, 1, Len(SAFE_BASE) - 1),
                 <<"h","t","t","p",":","/","/","e","v","i","l",".","i","o">> })
        \cup { <<"\n">> \o SAFE_BASE \o <<"\n">>,
               <<"\t">> \o SAFE_BASE \o <<"\r">>,
               <<"U+00A0">> \o SAFE_BASE \o <<"U+FEFF">>,
               <<"\f", "U+2028">> })

ApiKeyInputs ==
    {Undef} \cup StrsOf(Padded({<<>>, KEY1}) \cup {<<"\t">>, <<"U+3000">> \o KEY1})
EnvInputs == {Undef} \cup StrsOf(Padded({<<>>, KEY2}))

Cfg(apiBase, apiKey, defaultSubmolt, requestTimeoutMs) ==
    [apiBase |-> apiBase, apiKey |-> apiKey,
     defaultSubmolt |-> defaultSubmolt, requestTimeoutMs |-> requestTimeoutMs]

\* configurations for the config resolver
CfgInputs ==
    {Undef} \cup {Cfg(b, k, Undef, Undef) : b \in ApiBaseInputs, k \in ApiKeyInputs}

CfgGood == Cfg(Str(SAFE_BASE), Str(KEY1), Str(CATS), Undef)
CfgOther == Cfg(Str(SAFE_BASE \o <<"/","x">>), Str(KEY2), Undef, Num(5000))
CfgZero == Cfg(Undef, Str(KEY1), Undef, Num(0))
CfgNegative == Cfg(Undef, Str(KEY1), Undef, Num(-1))
CfgUnsafe == Cfg(Str(<<"h","t","t","p",":","/","/","e","v","i","l",".","i","o">>),
                 Str(KEY1), Undef, Undef)
CfgNoKey == Cfg(Undef, Undef, Undef, Undef)

NoParams == [none |-> Undef]

PostParams(S, T, C, U) ==
    {[submolt |-> s, title |-> t, content |-> c, url |-> u] :
        s \in S, t \in T, c \in C, u \in U}

FeedParams(P, S, L, M) ==
    {[personalized |-> p, sort |-> s, limit |-> l, submolt |-> m] :
        p \in P, s \in S, l \in L, m \in M}

SearchParams(Q, T, L) ==
    {[query |-> q, type |-> t, limit |-> l] : q \in Q, t \in T, l \in L}

Call(tool, P) == {[tool |-> tool, params |-> p] : p \in P}

\* one well-formed invocation of each tool
PlainCalls ==
    Call("moltbook_status", {NoParams})
    \cup Call("moltbook_post",
              PostParams({Undef}, {Str(<<"H","i">>)}, {Str(<<"w">>)}, {Undef}))
    \cup Call("moltbook_feed", FeedParams({Undef}, {Undef}, {Undef}, {Undef}))
    \cup Call("moltbook_search",
              SearchParams({Str(<<"a","b">>)}, {Undef}, {Undef}))

\* a tool of two bridged calls and a tool of one
TwoCalls ==
    Call("moltbook_status", {NoParams})
    \cup Call("moltbook_feed", FeedParams({Undef}, {Undef}, {Undef}, {Undef}))

\* invocations that exercise the tools' parameter handling
ToolCalls ==
    Call("moltbook_status", {NoParams})
    \cup Call("moltbook_post",
              PostParams({Undef, Str(<<" ">>), Str(<<"m">>)},
                         {Undef, Num(7), Str(<<"\t", "U+000B">>)}
                             \cup StrsOf(Padded({<<>>, <<"H","i">>})),
                         {Undef, Str(<<>>), Str(<<" ">>), Str(<<"w">>)},
                         {Undef, Str(<<>>), Str(<<" ">>), Str(<<"u">>)}))
    \cup Call("moltbook_feed",
              FeedParams({Undef, Bool(TRUE), Bool(FALSE)},
                         {Undef, Str(<<"h","o","t">>)},
                         {Undef, Num(0), Num(25), Num(500)},
                         {Undef, Str(<<" ">>), Str(CATS)}))
    \cup Call("moltbook_search",
              SearchParams({Undef, Num(7)}
                               \cup StrsOf(Padded({<<>>, <<"a">>, <<"a","b">>})),
                           {Undef, Str(<<"p","o","s","t","s">>)},
                           {Undef, Num(0), Num(500)}))

\* well-formed invocations, and a post and a search that fail validation
HostCalls ==
    PlainCalls
    \cup Call("moltbook_post",
              PostParams({Undef}, {Str(<<" ">>)}, {Str(<<"w">>)}, {Undef}))
    \cup Call("moltbook_search", SearchParams({Str(<<" ">>)}, {Undef}, {Undef}))

Res(status, retryAfter) == [status |-> status, retryAfter |-> retryAfter]

\* upstream responses: status and retry-after header (null when absent)
PlainResponses == {Res(200, Null), Res(429, Str("30"))}
Responses ==
    {Res(st, ra) : st \in {200, 204, 404, 429, 500}, ra \in {Null, Str(""), Str("30")}}

Texts ==
    {"", "Service Unavailable", "{\"id\":1}",
     "{\"error\":\"slow down\"}", "{\"error\":{\"code\":7}}"}

---------------------------------------------------------------------------
(* Specifications.                                                         *)

\* the steps of the bridge, over the given invocations and upstream answers
Steps(Calls, Rs, Ts) ==
    \/ \E i \in Invs, c \in Calls : Invoke(i, c.tool, c.params)
    \/ \E i \in Invs, r \in Rs : ResponseArrives(i, r)
    \/ \E i \in Invs, t \in Ts : BodyArrives(i, t)
    \/ \E i \in Invs, k \in 1 .. 2 : TimerFires(i, k)
    \/ \E i \in Invs : NetworkFails(i)
    \/ \E i \in Invs : CallRejects(i)
    \/ \E i \in Invs : Resume(i)

\* config and credential resolution over many configurations
InitCfg == InitOver(CfgInputs, EnvInputs, {1})
NextCfg == Steps(PlainCalls, PlainResponses, {"{\"id\":1}"})
SpecCfg == InitCfg /\ [][NextCfg]_vars

\* parameter handling of the four tools
InitTools == InitOver({CfgGood, CfgUnsafe, CfgNoKey}, {Undef, Str(KEY2)}, {1})
NextTools == Steps(ToolCalls, PlainResponses, {"{\"id\":1}"})
SpecTools == InitTools /\ [][NextTools]_vars

\* response handling of the bridged call
InitResp == InitOver({CfgGood}, {Undef}, {1})
NextResp == Steps(PlainCalls, Responses, Texts)
SpecResp == InitResp /\ [][NextResp]_vars

\* concurrent invocations
Init == InitOver({CfgGood}, {Undef}, Invs)
Next == Steps(TwoCalls, PlainResponses, {"{\"id\":1}"})
Spec == Init /\ [][Next]_vars

\* the host changes configuration and environment while tools run
HostCfgs == {CfgGood, CfgOther, CfgZero, CfgNegative, CfgUnsafe, CfgNoKey}
HostEnvs == {Undef, Str(KEY2)}
InitHost == InitOver(HostCfgs, HostEnvs, {1})
NextHost ==
    \/ Steps(HostCalls, PlainResponses, {"{\"id\":1}"})
    \/ \E c \in HostCfgs : HostSetsConfig(c)
    \/ \E e \in HostEnvs : HostSetsEnv(e)
SpecHost == InitHost /\ [][NextHost]_vars

---------------------------------------------------------------------------
(* Properties.                                                             *)

Invoked(i) == inv[i].pc \notin {"unused", "idle"}
Finished(i) == inv[i].pc \in {"returned", "threw"}
FailedWith(i, e) == inv[i].pc = "threw" /\ inv[i].out.error = e
Ended(c) == c.pc \in {"returned", "threw"}

\* the invocation has failed with e, or its call has and execute is about to
Failing(i, e) ==
    \/ FailedWith(i, e)
    \/ inv[i].pc = "resuming" /\ LastCall(i).out = Throw(e)

\* a value that supplies no string, or one that trims to the empty string
Blank(x) == ~IsStr(x) \/ Trim(x.s) = <<>>

\* the trusted prefix itself, or the prefix followed by a path
TrustedOrSubPath(s) ==
    \/ s = SAFE_BASE
    \/ StartsWith(s, SAFE_BASE) /\ s[Len(SAFE_BASE) + 1] = "/"

BasesUsed(i) == {requests[i][n].url[1] : n \in DOMAIN requests[i]}
KeysUsed(i) == {requests[i][n].headers.Authorization : n \in DOMAIN requests[i]}

\* C1: getCfg accepts a configured apiBase only if, trimmed, it is the
\* trusted prefix or a sub-path extension of it; every other configured
\* apiBase fails with UnsafeEndpoint, and a blank or absent apiBase resolves
\* to the default instead of failing.
C1_ApiBaseAllowList ==
    \A i \in Invs : Invoked(i) =>
        LET b == PluginCfgOf(pluginConfig).apiBase
        IN  IF Blank(b)
            THEN ~Failing(i, UnsafeApiBase) /\ BasesUsed(i) \subseteq {SAFE_BASE}
            ELSE IF TrustedOrSubPath(Trim(b.s))
            THEN ~Failing(i, UnsafeApiBase) /\ BasesUsed(i) \subseteq {Trim(b.s)}
            ELSE Failing(i, UnsafeApiBase) /\ requests[i] = <<>>

\* C2: getApiKey uses the configured apiKey if it supplies a key, otherwise
\* the environment variable, and fails with MissingCredential exactly when
\* neither supplies a non-blank key; when it fails no request is issued.
C2_CredentialResolution ==
    \A i \in Invs : Invoked(i) /\ ~Failing(i, UnsafeApiBase) =>
        LET k == PluginCfgOf(pluginConfig).apiKey
        IN  IF ~Blank(k) \/ ~Blank(env)
            THEN /\ ~Failing(i, MissingKey)
                 /\ requests[i] # <<>>
                 /\ KeysUsed(i) =
                        {<<"Bearer ", IF ~Blank(k) THEN Trim(k.s) ELSE Trim(env.s)>>}
            ELSE Failing(i, MissingKey) /\ requests[i] = <<>>

InvalidArgument == {TitleRequired, ContentOrUrlRequired, QueryRequired}

IsPost(i) == inv[i].tool = "moltbook_post"
IsSearch(i) == inv[i].tool = "moltbook_search"
IsStatus(i) == inv[i].tool = "moltbook_status"

\* C3 as stated: a post with a blank title, a post with a title but neither
\* content nor url, and a search with a blank query each fail with
\* InvalidArgument, and the invocation issues no outbound request.
C3_ValidationBeforeNetwork ==
    \A i \in Invs : Invoked(i) =>
        LET p == inv[i].params
            Refused == /\ inv[i].pc = "threw"
                       /\ inv[i].out.error \in InvalidArgument
                       /\ requests[i] = <<>>
        IN  /\ IsPost(i) /\ Blank(p.title) => Refused
            /\ IsPost(i) /\ ~Blank(p.title) /\ Blank(p.content) /\ Blank(p.url)
                    => Refused
            /\ IsSearch(i) /\ Blank(p.query) => Refused

\* C3 amended: each of these invocations fails before any network call and
\* issues no outbound request; the search fails with "query is required";
\* the post fails with "title is required", or "Either content or url is
\* required", when getCfg accepts the configured apiBase, and with the
\* unsafe-apiBase error otherwise, because the post tool resolves the
\* configuration before it validates its parameters.
C3_ValidationBeforeNetworkAmended ==
    \A i \in Invs : Invoked(i) =>
        LET p == inv[i].params
            Refused(e) == FailedWith(i, e) /\ requests[i] = <<>>
            PostRefused(e) ==
                IF getCfg(pluginConfig).threw THEN Refused(UnsafeApiBase) ELSE Refused(e)
        IN  /\ IsPost(i) /\ Blank(p.title) => PostRefused(TitleRequired)
            /\ IsPost(i) /\ ~Blank(p.title) /\ Blank(p.content) /\ Blank(p.url)
                    => PostRefused(ContentOrUrlRequired)
            /\ IsSearch(i) /\ Blank(p.query) => Refused(QueryRequired)

\* a post whose title is blank while its content is not has been refused
C3_Witness ==
    \E i \in Invs :
        /\ IsPost(i)
        /\ IsStr(inv[i].params.title) /\ Blank(inv[i].params.title)
        /\ ~Blank(inv[i].params.content)
        /\ FailedWith(i, TitleRequired)
        /\ requests[i] = <<>>

\* C4: a search whose query is shorter than the minimum length 2 fails with
\* InvalidArgument before any network call: no GET to /search is issued.
C4_ShortQueryRefused ==
    \A i \in Invs :
        /\ Invoked(i)
        /\ IsSearch(i)
        /\ IsStr(inv[i].params.query)
        /\ Len(inv[i].params.query.s) < 2
        /\ ~getCfg(pluginConfig).threw
        /\ ~getApiKey(pluginConfig, env).threw
        => /\ inv[i].pc = "threw"
           /\ inv[i].out.error \in InvalidArgument
           /\ requests[i] = <<>>

Calls(i) == {inv[i].calls[k] : k \in DOMAIN inv[i].calls}
Answered(c) == c.res.status # 0
OkStatus(status) == status \in 200 .. 299

\* C5: each bridged call owns one timer, released on every exit path: once a
\* call has ended (success, upstream error, timeout, also a timeout during
\* the body read) its timer is no longer armed, so no timer stays armed once
\* all calls have ended. Until then the timer is armed with the call's
\* timeout, or has fired and the call is about to end with the abort.
C5_TimerReleased ==
    \A i \in Invs :
        /\ Len(timers[i]) = Len(inv[i].calls)
        /\ \A k \in DOMAIN inv[i].calls :
              LET c == inv[i].calls[k]
                  t == timers[i][k]
              IN  /\ Ended(c) => t.state # "armed"
                  /\ InFlight(c) => t.state = "armed" /\ t.ms = c.cfg.timeoutMs
                  /\ c.pc = "rejecting" =>
                        /\ t.state \in {"armed", "fired"} /\ t.ms = c.cfg.timeoutMs
                        /\ t.state = "fired" <=> c.out = Throw(AbortError)
                  /\ (t.state = "none") <=> (c.cfg = Undef)
        /\ Finished(i) => \A k \in DOMAIN timers[i] : timers[i][k].state # "armed"

\* a returned call and a call failed by an upstream error, their timers
\* cleared, beside a call that timed out while its body was being read
C5_Witness ==
    \E i, j \in Invs :
        /\ Len(inv[i].calls) = 2
        /\ inv[i].calls[1].pc = "returned" /\ timers[i][1].state = "cleared"
        /\ inv[i].calls[2].pc = "threw" /\ inv[i].calls[2].res.status = 429
        /\ IsStr(inv[i].calls[2].text) /\ timers[i][2].state = "cleared"
        /\ Len(inv[j].calls) = 1
        /\ inv[j].calls[1].out = Throw(AbortError)
        /\ Answered(inv[j].calls[1]) /\ timers[j][1].state = "fired"

\* the detail expected for a body text
ExpectedDetail(text) ==
    CASE text = "" -> "null"
      [] text = "{\"error\":\"slow down\"}" -> "slow down"
      [] text = "Service Unavailable" -> "{\"raw\":\"Service Unavailable\"}"
      [] OTHER -> text

ExpectedMessage(c, hinted) ==
    <<"MoltBook API ", ToString(c.res.status), ": ", ExpectedDetail(c.text.s)>>
        \o (IF hinted THEN <<" (retry-after=", c.res.retryAfter.s, "s)">> ELSE <<>>)

\* C6 as stated: a call whose response has a non-success status never
\* returns a value; it raises UpstreamError with the status, the detail and
\* the retry-after hint exactly when the response has a retry-after header.
C6_UpstreamError ==
    \A i \in Invs : \A c \in Calls(i) :
        Ended(c) /\ Answered(c) /\ ~OkStatus(c.res.status) =>
            /\ c.pc = "threw"
            /\ IsStr(c.text)
            /\ c.out.error = Err("Error", ExpectedMessage(c, c.res.retryAfter # Null))

\* C6 amended: such a call never returns a value; when its body has been
\* read in full it raises UpstreamError with the status, the detail and the
\* retry-after hint exactly when the retry-after header is present with a
\* non-empty value; when the timeout fires or the connection fails while the
\* body is still being read it raises that error instead.
C6_UpstreamErrorAmended ==
    \A i \in Invs : \A c \in Calls(i) :
        Ended(c) /\ Answered(c) /\ ~OkStatus(c.res.status) =>
            /\ c.pc = "threw"
            /\ IF IsStr(c.text)
               THEN c.out.error =
                        Err("Error",
                            ExpectedMessage(c, c.res.retryAfter \notin {Null, Str("")}))
               ELSE c.out.error \in {AbortError, Terminated}

\* status 429 with retry-after: 30 has raised a message with 429 and
\* retry-after=30s
C6_Witness ==
    \E i \in Invs : \E c \in Calls(i) :
        /\ c.res = Res(429, Str("30"))
        /\ c.text = Str("{\"error\":\"slow down\"}")
        /\ c.out = Throw(Err("Error",
                <<"MoltBook API ", "429", ": ", "slow down",
                  " (retry-after=", "30", "s)">>))

ValidJsonTexts ==
    {"{\"id\":1}", "{\"error\":\"slow down\"}", "{\"error\":{\"code\":7}}"}

\* C7 as stated: a call succeeds exactly when the status is a success
\* status, and a success response whose body text is not valid JSON returns
\* {raw: text}.
C7_MalformedBodyPassedThrough ==
    \A i \in Invs : \A c \in Calls(i) :
        Ended(c) /\ Answered(c) =>
            /\ (c.pc = "returned") <=> OkStatus(c.res.status)
            /\ IsStr(c.text) /\ OkStatus(c.res.status)
                    /\ c.text.s \notin ValidJsonTexts
                    => c.out = Return(Obj([raw |-> c.text]))

\* C7 amended: once the body has been read in full the call succeeds exactly
\* when the status is a success status, whether or not the body parses; a
\* success body that is not empty and not valid JSON returns {raw: text}, an
\* empty body returns null; a call whose body read is cut short by the
\* timeout or a connection failure fails whatever the status.
C7_MalformedBodyPassedThroughAmended ==
    \A i \in Invs : \A c \in Calls(i) :
        Ended(c) /\ Answered(c) =>
            IF IsStr(c.text)
            THEN /\ (c.pc = "returned") <=> OkStatus(c.res.status)
                 /\ OkStatus(c.res.status) /\ c.text.s = "" => c.out = Return(Null)
                 /\ OkStatus(c.res.status) /\ c.text.s \notin ValidJsonTexts \cup {""}
                        => c.out = Return(Obj([raw |-> c.text]))
            ELSE c.pc = "threw" /\ c.out.error \in {AbortError, Terminated}

\* a 200 response with a body that is not JSON has returned {raw: text}
C7_Witness ==
    \E i \in Invs : \E c \in Calls(i) :
        /\ c.res.status = 200
        /\ c.text = Str("Service Unavailable")
        /\ c.out = Return(Obj([raw |-> Str("Service Unavailable")]))

\* C8: moltbook_status returns an envelope only after both bridged GET calls
\* have completed successfully, with details {me, status}; if either call
\* fails the invocation fails with that call's error and returns no envelope.
C8_StatusAllOrNothing ==
    \A i \in Invs : IsStatus(i) =>
        LET cs == inv[i].calls
            n == Len(cs)
        IN  /\ inv[i].pc \in {"awaiting", "resuming"} => inv[i].out = Undef
            /\ inv[i].pc = "returned" =>
                  /\ n = 2
                  /\ cs[1].pc = "returned" /\ cs[1].path = <<"/agents/me">>
                  /\ cs[2].pc = "returned" /\ cs[2].path = <<"/agents/status">>
                  /\ cs[1].init.method = "GET" /\ cs[2].init.method = "GET"
                  /\ ~inv[i].out.threw
                  /\ inv[i].out.value.details =
                        [me |-> cs[1].out.value, status |-> cs[2].out.value]
            /\ inv[i].pc = "threw" =>
                  /\ n \in 1 .. 2
                  /\ cs[n].pc = "threw"
                  /\ inv[i].out = Throw(cs[n].out.error)
                  /\ \A k \in 1 .. n - 1 : cs[k].pc = "returned"

\* the second call of a status invocation has failed after the first returned
C8_Witness ==
    \E i \in Invs :
        /\ IsStatus(i)
        /\ Len(inv[i].calls) = 2
        /\ inv[i].calls[1].pc = "returned"
        /\ inv[i].calls[2].pc = "threw"
        /\ inv[i].calls[2].res.status = 429
        /\ inv[i].pc = "threw"

PreFlight == {UnsafeApiBase, MissingKey} \cup InvalidArgument

\* C9 as stated: every invocation of post, feed or search maps to exactly one
\* outbound request and every invocation of status to two.
C9_OneRequestPerInvocation ==
    \A i \in Invs : Finished(i) =>
        Len(requests[i]) = IF IsStatus(i) THEN 2 ELSE 1

\* C9 amended: no retries: each bridged call issues one request when its
\* config and credential resolve and none otherwise; an invocation of post,
\* feed or search makes at most one call and issues exactly one request
\* unless it fails before the fetch (validation, unsafe apiBase, missing
\* key), then none; status makes at most two calls, issues two requests only
\* after its first call succeeded, and has issued two when it returns; a
\* call that failed is the invocation's last.
C9_NoRetries ==
    \A i \in Invs : Invoked(i) =>
        LET cs == inv[i].calls
            n == Len(cs)
            r == Len(requests[i])
        IN  /\ r = Cardinality({k \in DOMAIN cs : cs[k].cfg # Undef})
            /\ n <= IF IsStatus(i) THEN 2 ELSE 1
            /\ \A k \in DOMAIN cs :
                  cs[k].pc = "threw" => k = n /\ inv[i].pc \in {"resuming", "threw"}
            /\ Finished(i) /\ ~IsStatus(i) =>
                  r = IF inv[i].pc = "threw" /\ inv[i].out.error \in PreFlight
                      THEN 0 ELSE 1
            /\ Finished(i) /\ IsStatus(i) =>
                  /\ inv[i].pc = "returned" => r = 2
                  /\ r = 2 => cs[1].pc = "returned"
                  /\ r = 0 <=> n = 1 /\ inv[i].out.error \in PreFlight

\* a status invocation has failed on its first call with a retry-after hint
\* and has issued one request only
C9_Witness ==
    \E i \in Invs :
        /\ IsStatus(i)
        /\ inv[i].pc = "threw"
        /\ Len(inv[i].calls) = 1
        /\ inv[i].calls[1].res = Res(429, Str("30"))
        /\ IsStr(inv[i].calls[1].text)
        /\ Len(requests[i]) = 1

\* C10 as stated: within one status invocation the two calls' resolutions
\* always agree, also when the host changes pluginConfig or the environment
\* while the first call is in flight.
C10_ResolutionsAgree ==
    \A i \in Invs :
        IsStatus(i) /\ Len(inv[i].calls) = 2 =>
            inv[i].calls[1].cfg = inv[i].calls[2].cfg

\* the effective configuration of a pluginConfig and environment
Effective(at) ==
    LET c == PluginCfgOf(at.pluginConfig)
        b == IF Truthy(c.apiBase) THEN Trim(c.apiBase.s) ELSE SAFE_BASE
        k == IF Truthy(c.apiKey) THEN Trim(c.apiKey.s)
             ELSE IF Truthy(at.env) THEN Trim(at.env.s) ELSE <<>>
        ms == IF IsNum(c.requestTimeoutMs) /\ c.requestTimeoutMs.n > 0
              THEN c.requestTimeoutMs.n ELSE 15000
    IN  IF ~StartsWith(b, SAFE_BASE) \/ k = <<>>
        THEN Undef
        ELSE [apiBase |-> b, apiKey |-> k, timeoutMs |-> ms]

\* C10 amended: each bridged call resolves the effective configuration from
\* pluginConfig and the environment as they are when that call starts, never
\* from a cached copy; the two resolutions of a status invocation agree
\* whenever the host has changed neither between the two starts, and the
\* second call takes up a change made while the first was in flight.
C10_ResolvedAtCallStart ==
    \A i \in Invs :
        /\ Len(stamps[i]) = Len(inv[i].calls)
        /\ \A k \in DOMAIN inv[i].calls :
              /\ inv[i].calls[k].at = stamps[i][k]
              /\ inv[i].calls[k].cfg = Effective(stamps[i][k])
        /\ IsStatus(i) /\ Len(inv[i].calls) = 2 /\ stamps[i][1] = stamps[i][2]
              => inv[i].calls[1].cfg = inv[i].calls[2].cfg

\* the two calls of a status invocation have resolved different keys and
\* timeouts after a host change in between
C10_Witness ==
    \E i \in Invs :
        /\ IsStatus(i)
        /\ Len(inv[i].calls) = 2
        /\ inv[i].calls[1].cfg # Undef
        /\ inv[i].calls[2].cfg # Undef
        /\ inv[i].calls[1].cfg.apiKey # inv[i].calls[2].cfg.apiKey
        /\ inv[i].calls[1].cfg.timeoutMs # inv[i].calls[2].cfg.timeoutMs
        /\ stamps[i][1] # stamps[i][2]

=============================================================================
